---- MODULE Spec2Model ----
(***************************************************************************)
(* StoryController (api/controllers/StoryController.js): the "split"       *)
(* action, which splits a story into a parent and a child story and moves  *)
(* the tasks of the open phases to the child, and the "tasks" action,      *)
(* which assembles the report of a story's tasks.                          *)
(*                                                                         *)
(* Every callback of the controller is one action: it runs its synchronous *)
(* body to the end, including the continuations of async.parallel,         *)
(* async.waterfall and async.map that it triggers.  The store (Story,      *)
(* Task, Phase tables), the published socket messages and the responses    *)
(* are the state.  Every I/O call may succeed or fail.                     *)
(***************************************************************************)
EXTENDS Naturals, Integers, Sequences, FiniteSets, TLC

\* ------------------------------------------------------------------ bounds
NumTasks == 2
NumPhases == 2
MaxTime == 1
MaxDur == 2

\* --------------------------------------------------------------- constants
\* null, as a timestamp or an id; JavaScript's > reads it as 0
Null == 0
\* sprint id of the project backlog
Backlog == 0
\* request parameters: the story that is split and the project of the phases
SrcStory == 1
DestProject == 1
\* a story and a project the request is not about
OtherStory == 2
OtherProject == 2

TaskIds == 1..NumTasks
ForeignTask == NumTasks + 1
AllTaskIds == 1..(NumTasks + 1)
PhaseIds == 1..NumPhases
ForeignPhase == NumPhases + 1
AllPhaseIds == 1..(NumPhases + 1)
Times == Null..MaxTime
\* new Date() of the finalize step
Now == MaxTime + 1
SrcSprint == Backlog + 2
DestSprints == {Backlog, Backlog + 1}

JobNames == {"role", "story", "tasks", "users", "types"}

VARIABLES
    stories,    \* Story table: id -> record
    tasks,      \* Task table: id -> record
    phases,     \* Phase table: id -> record
    tasks0,     \* the Task table when the request arrived (history)
    ledger,     \* PhaseDuration table: a set of rows
    events,     \* published socket messages, in order
    split,      \* request -> the closure variables of its call of split()
    view        \* the closure variables of tasks()

vars == <<stories, tasks, phases, tasks0, ledger, events, split, view>>

\* ------------------------------------------------------------------ values
NoStory == [id |-> Null]
NoPhase == [id |-> Null]
NoTask == [id |-> Null]
NoError == [err |-> "none", idx |-> 0]
Error(name, i) == [err |-> name, idx |-> i]

Published(ev, id) == [ev |-> ev, id |-> id]

RECURSIVE SortedSeq(_)
SortedSeq(S) ==
    IF S = {} THEN <<>>
    ELSE LET m == CHOOSE x \in S : \A y \in S : x <= y
         IN <<m>> \o SortedSeq(S \ {m})

\* the order of a phase of the project: the last phase by id comes first,
\* so that the fetched list does not start with the smallest order
PhaseOrder(p) == p % NumPhases

\* ----------------------------------------------------------- data service
\* DataService.getPhases({isDone: 0, projectId: projectId})
getPhases(projectId) ==
    LET ids == {p \in DOMAIN phases :
                   /\ phases[p].projectId = projectId
                   /\ ~phases[p].isDone}
        s == SortedSeq(ids)
    IN [i \in 1..Len(s) |-> phases[s[i]]]

\* DataService.getTasks({storyId: storyId, or: [{phaseId: ..}, ..]})
getTasksOfAnyPhase(storyId, phaseIds) ==
    LET s == SortedSeq({t \in DOMAIN tasks : tasks[t].storyId = storyId})
    IN [i \in 1..Len(s) |-> tasks[s[i]]]
getTasks(storyId, phaseIds) ==
    LET ids == {t \in DOMAIN tasks :
                   /\ tasks[t].storyId = storyId
                   /\ tasks[t].phaseId \in phaseIds}
        s == SortedSeq(ids)
    IN [i \in 1..Len(s) |-> tasks[s[i]]]

\* Story.update(where, update): the patch is merged into the stored record
StoryUpdate(story, update) ==
    [story EXCEPT !.isDone = update.isDone,
                  !.timeStart = update.timeStart,
                  !.timeEnd = update.timeEnd]

\* the next auto-increment id of the Story table
NextStoryIdReused == Cardinality({SrcStory, OtherStory}) + 1
NextStoryId == Cardinality(DOMAIN stories) + 1

\* ------------------------------------------------------------ async.each
\* the bookkeeping of async.each behind async.parallel and async.map: a job
\* that fails calls the main callback at once and replaces it by a no-op; a
\* job that succeeds is counted, and the last one calls the main callback.
EachInit == [completed |-> 0, noop |-> FALSE]

EachFireDropsError(d, n, failed) ==
    IF failed
    THEN "none"
    ELSE IF d.completed + 1 >= n /\ ~d.noop THEN "ok" ELSE "none"
EachFireNoGuard(d, n, failed) ==
    IF failed
    THEN "err"
    ELSE IF d.completed + 1 >= n /\ ~d.noop THEN "ok" ELSE "none"
EachFire(d, n, failed) ==
    IF failed
    THEN IF d.noop THEN "none" ELSE "err"
    ELSE IF d.completed + 1 >= n /\ ~d.noop THEN "ok" ELSE "none"

EachNextKeepsCallback(d, failed) ==
    IF failed THEN d ELSE [d EXCEPT !.completed = @ + 1]
EachNext(d, failed) ==
    IF failed
    THEN [d EXCEPT !.noop = TRUE]
    ELSE [d EXCEPT !.completed = @ + 1]

\* ------------------------------------------------------------ split: state
SplitOff ==
    [ stage |-> "off",
      req |-> [storyId |-> Null, sprintId |-> Null, projectId |-> Null],
      getStory |-> "none",
      story |-> NoStory,
      jobA |-> [newStory |-> "none", phases |-> "none"],
      resA |-> [newStory |-> NoStory, phases |-> <<>>],
      doneA |-> EachInit,
      data |-> [storyOld |-> NoStory, storyNew |-> NoStory,
                tasks |-> <<>>, taskCnt |-> 0],
      firstPhase |-> NoPhase,
      getTasks |-> "none",
      wf |-> "none",
      mTasks |-> <<>>,
      mTarget |-> <<>>,
      mSt |-> <<>>,
      mObj |-> <<>>,
      mRes |-> <<>>,
      doneM |-> EachInit,
      jobF |-> [old |-> "none", new |-> "none"],
      updNew |-> [isDone |-> FALSE, timeStart |-> Null, timeEnd |-> Null],
      doneF |-> EachInit,
      responses |-> <<>> ]

SplitIdle == [SplitOff EXCEPT !.stage = "idle"]

\* ResponseService.makeError(error, request, response)
makeErrorNoResponse(w, error) == w
makeError(w, error) ==
    [w EXCEPT !.responses = Append(@, [kind |-> "error", error |-> error])]

\* response.send(data)
send(w) ==
    [w EXCEPT !.responses = Append(@, [kind |-> "send", data |-> w.data])]

\* ------------------------------------------------------- split: finalize
\* the timeStart of the new story: the latest timeStart of the moved tasks
RECURSIVE MaxTimeStartFrom(_, _, _)
MaxTimeStartFrom(ts, i, timeStart) ==
    IF i > Len(ts) THEN timeStart
    ELSE MaxTimeStartFrom(ts, i + 1,
            IF ts[i].timeStart > timeStart THEN ts[i].timeStart ELSE timeStart)

NewStoryTimeStartOfLast(ts) ==
    IF Len(ts) = 0 THEN Null ELSE ts[Len(ts)].timeStart
NewStoryTimeStart(ts) == MaxTimeStartFrom(ts, 1, Null)

\* finalizeStorySplit(): issue both Story.update jobs
finalizeStorySplit(w) ==
    [w EXCEPT !.stage = "finalize",
              !.jobF = [old |-> "pending", new |-> "pending"],
              !.updNew = [isDone |-> FALSE,
                          timeStart |-> NewStoryTimeStart(w.data.tasks),
                          timeEnd |-> Null]]

\* the main callback of finalizeStorySplit's async.parallel
finalizeCallbackSilent(w, error) == w
finalizeCallback(w, error) ==
    IF error # NoError THEN makeError(w, error) ELSE send(w)

\* ---------------------------------------------------- split: changeTasks
\* the phase with the smallest order, the first one among equals
RECURSIVE FirstPhaseFrom(_, _, _)
FirstPhaseFrom(ps, i, firstPhase) ==
    IF i > Len(ps) THEN firstPhase
    ELSE FirstPhaseFrom(ps, i + 1,
            IF ps[i].order < firstPhase.order THEN ps[i] ELSE firstPhase)

\* phases[0] of an empty list is undefined
FirstPhaseIsFirstFetched(ps) == IF Len(ps) = 0 THEN NoPhase ELSE ps[1]
FirstPhase(ps) ==
    IF Len(ps) = 0 THEN NoPhase ELSE FirstPhaseFrom(ps, 1, ps[1])

\* changeTasks(phases): firstPhase, then the waterfall's first job
changeTasks(w, ps) ==
    [w EXCEPT !.stage = "changeTasks",
              !.firstPhase = FirstPhase(ps),
              !.getTasks = "pending",
              !.wf = "getTasks"]

\* the main callback of changeTasks' async.waterfall
WaterfallCallbackIgnoresError(w, error, ts) ==
    finalizeStorySplit([w EXCEPT !.wf = "err"])
WaterfallCallback(w, error, ts) ==
    IF error # NoError
    THEN makeError([w EXCEPT !.wf = "err"], error)
    ELSE finalizeStorySplit([w EXCEPT !.wf = "ok",
                                      !.data.tasks = ts,
                                      !.data.taskCnt = Len(ts)])

\* the synchronous part of the iterator of moveTasks, for one fetched task
TargetAlwaysBacklog(w, task) ==
    [taskId |-> task.id,
     timeStart |-> Null,
     phaseId |-> w.firstPhase.id]
Target(w, task) ==
    IF w.data.storyNew.sprintId = Backlog
    THEN [taskId |-> task.id, timeStart |-> Null, phaseId |-> w.firstPhase.id]
    ELSE [taskId |-> task.id, timeStart |-> task.timeStart,
          phaseId |-> task.phaseId]

\* moveTasks(tasks, next): async.map over the fetched tasks
moveTasks(w, ts) ==
    IF Len(ts) = 0
    THEN WaterfallCallback(w, NoError, <<>>)
    ELSE [w EXCEPT !.wf = "moveTasks",
                   !.mTasks = ts,
                   !.mTarget = [i \in 1..Len(ts) |-> Target(w, ts[i])],
                   !.mSt = [i \in 1..Len(ts) |-> "getTask"],
                   !.mObj = [i \in 1..Len(ts) |-> NoTask],
                   !.mRes = [i \in 1..Len(ts) |-> NoTask],
                   !.doneM = EachInit]

\* one iterator of the map calls back
MapDoneIgnoresFailure(w, i, error, result) ==
    LET fire == EachFire(w.doneM, Len(w.mTasks), error # NoError)
        w1 == [w EXCEPT !.doneM = EachNext(@, error # NoError),
                        !.mRes[i] = result]
    IN IF fire \in {"err", "ok"}
       THEN WaterfallCallback(w1, NoError,
                              SelectSeq(w1.mRes, LAMBDA t : t # NoTask))
       ELSE w1
MapDoneOnFirstSave(w, i, error, result) ==
    LET w1 == [w EXCEPT !.doneM = EachNext(@, error # NoError),
                        !.mRes[i] = result]
    IN IF error # NoError
       THEN WaterfallCallback(w1, error, w1.mRes)
       ELSE IF w.doneM.completed = 0 /\ ~w.doneM.noop
            THEN WaterfallCallback(w1, NoError,
                                   SelectSeq(w1.mRes, LAMBDA t : t # NoTask))
            ELSE w1
MapDone(w, i, error, result) ==
    LET fire == EachFire(w.doneM, Len(w.mTasks), error # NoError)
        w1 == [w EXCEPT !.doneM = EachNext(@, error # NoError),
                        !.mRes[i] = result]
    IN CASE fire = "err" -> WaterfallCallback(w1, error, w1.mRes)
         [] fire = "ok" -> WaterfallCallback(w1, NoError, w1.mRes)
         [] OTHER -> w1

\* ----------------------------------------------------- split: splitStory
\* the copy of the story that becomes the new story
NewStoryCloneKeepsSprint(story, sprintId, storyId) ==
    [story EXCEPT !.id = Null, !.timeStart = Null, !.timeEnd = Null,
                  !.parentId = storyId]
NewStoryClone(story, sprintId, storyId) ==
    [story EXCEPT !.id = Null, !.timeStart = Null, !.timeEnd = Null,
                  !.sprintId = sprintId, !.parentId = storyId]

\* splitStory(story): issue both jobs of the first parallel stage
splitStory(w, story) ==
    [w EXCEPT !.stage = "splitStory",
              !.story = NewStoryClone(story, w.req.sprintId, w.req.storyId),
              !.jobA = [newStory |-> "pending", phases |-> "pending"],
              !.doneA = EachInit]

\* the main callback of splitStory's async.parallel
splitStoryCallbackNoBranch(w, error, results) ==
    IF error # NoError
    THEN makeError(w, error)
    ELSE changeTasks([w EXCEPT !.data.storyNew = results.newStory],
                     results.phases)
splitStoryCallbackNoError(w, error, results) ==
    LET w1 == [w EXCEPT !.data.storyNew = results.newStory]
    IN IF Len(results.phases) > 0
       THEN changeTasks(w1, results.phases)
       ELSE finalizeStorySplit(w1)
splitStoryCallback(w, error, results) ==
    IF error # NoError
    THEN makeError(w, error)
    ELSE LET w1 == [w EXCEPT !.data.storyNew = results.newStory]
         IN IF Len(results.phases) > 0
            THEN changeTasks(w1, results.phases)
            ELSE finalizeStorySplit(w1)

\* one job of the first parallel stage calls back
ParallelADone(w, error) ==
    LET fire == EachFire(w.doneA, 2, error # NoError)
        w1 == [w EXCEPT !.doneA = EachNext(@, error # NoError)]
    IN CASE fire = "err" -> splitStoryCallback(w1, error, w1.resA)
         [] fire = "ok" -> splitStoryCallback(w1, NoError, w1.resA)
         [] OTHER -> w1

\* one job of the finalize stage calls back
ParallelFDone(w, error) ==
    LET fire == EachFire(w.doneF, 2, error # NoError)
        w1 == [w EXCEPT !.doneF = EachNext(@, error # NoError)]
    IN CASE fire = "err" -> finalizeCallback(w1, error)
         [] fire = "ok" -> finalizeCallback(w1, NoError)
         [] OTHER -> w1

\* ---------------------------------------------------------- split: actions
\* split(request, response): read the parameters, issue getStory
Split(r) ==
    /\ split[r].stage = "idle"
    /\ \E sprintId \in DestSprints :
          split' = [split EXCEPT ![r] =
              [split[r] EXCEPT
                  !.stage = "getStory",
                  !.req = [storyId |-> SrcStory, sprintId |-> sprintId,
                           projectId |-> DestProject],
                  !.getStory = "pending"]]
    /\ UNCHANGED <<stories, tasks, phases, tasks0, ledger, events, view>>

\* the callback of DataService.getStory
GetStoryDone(r) ==
    LET w == split[r] IN
    /\ w.getStory = "pending"
    /\ \/ split' = [split EXCEPT ![r] =
              splitStory([w EXCEPT !.getStory = "ok"], stories[w.req.storyId])]
       \/ split' = [split EXCEPT ![r] =
              makeError([w EXCEPT !.getStory = "err"], Error("getStory", 0))]
    /\ UNCHANGED <<stories, tasks, phases, tasks0, ledger, events, view>>

\* the callback of Story.create in the job newStory
NewStoryDone(r) ==
    LET w == split[r] IN
    /\ w.jobA.newStory = "pending"
    /\ \/ LET story == [w.story EXCEPT !.id = NextStoryId]
          IN /\ stories' = stories @@ (story.id :> story)
             /\ events' = Append(events, Published("Story.publishCreate", story.id))
             /\ split' = [split EXCEPT ![r] =
                   ParallelADone([w EXCEPT !.jobA.newStory = "ok",
                                           !.resA.newStory = story],
                                 NoError)]
       \/ /\ split' = [split EXCEPT ![r] =
                ParallelADone([w EXCEPT !.jobA.newStory = "err"],
                              Error("newStory", 0))]
          /\ UNCHANGED <<stories, events>>
    /\ UNCHANGED <<tasks, phases, tasks0, ledger, view>>

\* the callback of DataService.getPhases in the job phases
PhasesDone(r) ==
    LET w == split[r] IN
    /\ w.jobA.phases = "pending"
    /\ \/ split' = [split EXCEPT ![r] =
              ParallelADone([w EXCEPT !.jobA.phases = "ok",
                                      !.resA.phases = getPhases(w.req.projectId)],
                            NoError)]
       \/ split' = [split EXCEPT ![r] =
              ParallelADone([w EXCEPT !.jobA.phases = "err"],
                            Error("phases", 0))]
    /\ UNCHANGED <<stories, tasks, phases, tasks0, ledger, events, view>>

\* the callback of DataService.getTasks, the first job of the waterfall
GetTasksDone(r) ==
    LET w == split[r]
        ps == w.resA.phases
    IN
    /\ w.getTasks = "pending"
    /\ \/ split' = [split EXCEPT ![r] =
              moveTasks([w EXCEPT !.getTasks = "ok"],
                        getTasks(w.req.storyId, {ps[i].id : i \in 1..Len(ps)}))]
       \/ split' = [split EXCEPT ![r] =
              WaterfallCallback([w EXCEPT !.getTasks = "err"],
                                Error("getTasks", 0), <<>>)]
    /\ UNCHANGED <<stories, tasks, phases, tasks0, ledger, events, view>>

\* the task object of the iterator: fetched again, then changed
MovedTask(task, storyNew, target) ==
    [task EXCEPT !.storyId = storyNew.id,
                 !.phaseId = target.phaseId,
                 !.timeStart = target.timeStart]

\* the callback of DataService.getTask in the iterator of moveTasks
GetTaskDone(r, i) ==
    LET w == split[r] IN
    /\ i \in 1..Len(w.mSt)
    /\ w.mSt[i] = "getTask"
    /\ \/ split' = [split EXCEPT ![r] =
              [w EXCEPT !.mSt[i] = "save",
                        !.mObj[i] = MovedTask(tasks[w.mTarget[i].taskId],
                                              w.data.storyNew, w.mTarget[i])]]
       \/ split' = [split EXCEPT ![r] =
              MapDone([w EXCEPT !.mSt[i] = "errGetTask"], i,
                      Error("getTask", i), NoTask)]
    /\ UNCHANGED <<stories, tasks, phases, tasks0, ledger, events, view>>

\* the messages of a saved task: destroy, then create
TaskMessagesCreateOnly(id) == <<Published("Task.publishCreate", id)>>
TaskMessages(id) ==
    <<Published("Task.publishDestroy", id), Published("Task.publishCreate", id)>>

\* the callback of task.save in the iterator of moveTasks
SaveDone(r, i) ==
    LET w == split[r] IN
    /\ i \in 1..Len(w.mSt)
    /\ w.mSt[i] = "save"
    /\ \/ LET task == w.mObj[i]
          IN /\ tasks' = [tasks EXCEPT ![task.id] = task]
             /\ events' = events \o TaskMessages(task.id)
             /\ split' = [split EXCEPT ![r] =
                   MapDone([w EXCEPT !.mSt[i] = "ok"], i, NoError, task)]
       \/ /\ split' = [split EXCEPT ![r] =
                MapDone([w EXCEPT !.mSt[i] = "errSave"], i,
                        Error("save", i), NoTask)]
          /\ UNCHANGED <<tasks, events>>
    /\ UNCHANGED <<stories, phases, tasks0, ledger, view>>

\* the patch of the old story
OldStoryUpdate == [isDone |-> TRUE, timeEnd |-> Now]

\* the callback of Story.update of the old story
UpdateOldDone(r) ==
    LET w == split[r] IN
    /\ w.jobF.old = "pending"
    /\ \/ LET id == w.req.storyId
              story == [stories[id] EXCEPT !.isDone = OldStoryUpdate.isDone,
                                           !.timeEnd = OldStoryUpdate.timeEnd]
          IN /\ stories' = [stories EXCEPT ![id] = story]
             /\ events' = Append(events, Published("Story.publishUpdate", id))
             /\ split' = [split EXCEPT ![r] =
                   ParallelFDone([w EXCEPT !.jobF.old = "ok",
                                           !.data.storyOld = story],
                                 NoError)]
       \/ /\ split' = [split EXCEPT ![r] =
                ParallelFDone([w EXCEPT !.jobF.old = "err"],
                              Error("updateOld", 0))]
          /\ UNCHANGED <<stories, events>>
    /\ UNCHANGED <<tasks, phases, tasks0, ledger, view>>

\* the callback of Story.update of the new story
UpdateNewDone(r) ==
    LET w == split[r] IN
    /\ w.jobF.new = "pending"
    /\ \/ LET id == w.data.storyNew.id
              story == StoryUpdate(stories[id], w.updNew)
          IN /\ stories' = [stories EXCEPT ![id] = story]
             /\ events' = Append(events, Published("Story.publishUpdate", id))
             /\ split' = [split EXCEPT ![r] =
                   ParallelFDone([w EXCEPT !.jobF.new = "ok",
                                           !.data.storyNew = story],
                                 NoError)]
       \/ /\ split' = [split EXCEPT ![r] =
                ParallelFDone([w EXCEPT !.jobF.new = "err"],
                              Error("updateNew", 0))]
          /\ UNCHANGED <<stories, events>>
    /\ UNCHANGED <<tasks, phases, tasks0, ledger, view>>

SplitNext ==
    \E r \in DOMAIN split :
        \/ Split(r)
        \/ GetStoryDone(r)
        \/ NewStoryDone(r)
        \/ PhasesDone(r)
        \/ GetTasksDone(r)
        \/ \E i \in 1..(NumTasks + 1) : GetTaskDone(r, i)
        \/ \E i \in 1..(NumTasks + 1) : SaveDone(r, i)
        \/ UpdateOldDone(r)
        \/ UpdateNewDone(r)

\* ------------------------------------------------------------ tasks: state
ViewOff ==
    [ stage |-> "off",
      storyId |-> Null,
      job |-> [j \in JobNames |-> "none"],
      data |-> [role |-> FALSE, story |-> NoStory, tasks |-> <<>>,
                users |-> <<>>, types |-> <<>>],
      done |-> EachInit,
      getPhases |-> "none",
      phases |-> <<>>,
      dur |-> <<>>,
      doneD |-> EachInit,
      responses |-> <<>> ]

ViewIdle == [ViewOff EXCEPT !.stage = "idle"]

\* ResponseService.makeError(error, request, response) of the tasks action
viewError(v, error) ==
    [v EXCEPT !.stage = "error",
              !.responses = Append(@, [kind |-> "error", error |-> error])]

\* ------------------------------------------------------- tasks: makeView
\* array.reduce(function(memo, i) { return memo + i; }) from position i on
RECURSIVE Reduce(_, _, _)
Reduce(s, i, memo) ==
    IF i > Len(s) THEN memo ELSE Reduce(s, i + 1, memo + s[i])

\* _.pluck(list, "duration")
PluckDuration(ps) == [i \in 1..Len(ps) |-> ps[i].duration]

\* totalTime: the durations of all phases
TotalTime(ps) ==
    IF Len(ps) > 0
    THEN LET d == PluckDuration(ps) IN Reduce(d, 2, d[1])
    ELSE 0

\* totalTimeNoFirst: the durations of the phases whose order is not 0
TotalTimeNoFirstOfAll(ps) == TotalTime(ps)
TotalTimeNoFirst(ps) ==
    IF Len(ps) > 0
    THEN LET temp == PluckDuration(SelectSeq(ps, LAMBDA p : ~(p.order = 0)))
         IN IF Len(temp) > 0 THEN Reduce(temp, 2, temp[1]) ELSE 0
    ELSE 0

\* the number a / b * 100 as a fraction; a division by 0 gives Infinity or
\* NaN, the fractions of denominator 0
Percentage(a, b) == [num |-> a * 100, den |-> b]
Zero == [num |-> 0, den |-> 1]

DurationPercentage(phase, totalTimeNoFirst) ==
    IF phase.duration > 0 /\ phase.order # 0
    THEN Percentage(phase.duration, totalTimeNoFirst)
    ELSE Zero

DurationPercentageTotalNoGuard(phase, totalTime) ==
    Percentage(phase.duration, totalTime)
DurationPercentageTotal(phase, totalTime) ==
    IF phase.duration > 0
    THEN Percentage(phase.duration, totalTime)
    ELSE Zero

\* _.reduce(tasks, function(memo, task) {..}, 0): the tasks that are done
RECURSIVE CntTaskDone(_, _, _)
CntTaskDone(ts, i, memo) ==
    IF i > Len(ts) THEN memo
    ELSE CntTaskDone(ts, i + 1, IF ts[i].isDone THEN memo + 1 ELSE memo)

\* Math.round(a / b): the floor of a / b + 1/2
MathRound(a, b) == (2 * a + b) \div (2 * b)

ProgressTaskAllOrNothing(cntTaskDone, cntTaskTotal) ==
    IF cntTaskDone > 0 THEN 100 ELSE 0
ProgressTask(cntTaskDone, cntTaskTotal) ==
    IF cntTaskDone > 0
    THEN MathRound(cntTaskDone * 100, cntTaskTotal)
    ELSE 0

\* makeView(data): the totals, the percentages, the progress; response.view
makeView(v, ps) ==
    LET totalTime == TotalTime(ps)
        totalTimeNoFirst == TotalTimeNoFirst(ps)
        ts == v.data.tasks
        cntTaskDone == CntTaskDone(ts, 1, 0)
        data ==
            [ story |-> v.data.story,
              tasks |-> ts,
              phases |-> [i \in 1..Len(ps) |->
                  [ id |-> ps[i].id,
                    order |-> ps[i].order,
                    duration |-> ps[i].duration,
                    durationPercentage |->
                        DurationPercentage(ps[i], totalTimeNoFirst),
                    durationPercentageTotal |->
                        DurationPercentageTotal(ps[i], totalTime) ]],
              phaseDuration |-> [totalTime |-> totalTime,
                                 totalTimeNoFirst |-> totalTimeNoFirst],
              cntTaskTotal |-> Len(ts),
              cntTaskDone |-> cntTaskDone,
              progressTask |-> ProgressTask(cntTaskDone, Len(ts)) ]
    IN [v EXCEPT !.stage = "view",
                 !.responses = Append(@, [kind |-> "view", data |-> data])]

\* --------------------------------------------- tasks: fetchPhaseDuration
\* the main callback of fetchPhaseDuration's async.map
fetchPhaseDurationCallback(v, error, ps) ==
    IF error # NoError THEN viewError(v, error) ELSE makeView(v, ps)

\* fetchPhaseDuration(phases, data): async.map over the phases
fetchPhaseDuration(v, ps) ==
    IF Len(ps) = 0
    THEN fetchPhaseDurationCallback(v, NoError, <<>>)
    ELSE [v EXCEPT !.stage = "fetchPhaseDuration",
                   !.phases = ps,
                   !.dur = [i \in 1..Len(ps) |-> "pending"],
                   !.doneD = EachInit]

\* one iterator of the map calls back
ViewMapDone(v, error) ==
    LET fire == EachFire(v.doneD, Len(v.phases), error # NoError)
        v1 == [v EXCEPT !.doneD = EachNext(@, error # NoError)]
    IN CASE fire = "err" -> fetchPhaseDurationCallback(v1, error, v1.phases)
         [] fire = "ok" -> fetchPhaseDurationCallback(v1, NoError, v1.phases)
         [] OTHER -> v1

\* the value of SUM(duration) over no row
NullSum == -1

RECURSIVE SumOf(_)
SumOf(rows) ==
    IF rows = {} THEN 0
    ELSE LET x == CHOOSE x \in rows : TRUE
         IN x.duration + SumOf(rows \ {x})

\* PhaseDuration.find({sum: "duration"}).where(where): result[0].duration
SumDuration(where) ==
    LET rows == {x \in ledger : /\ x.phaseId = where.phaseId
                                /\ x.storyId = where.storyId}
    IN IF rows = {} THEN NullSum ELSE SumOf(rows)

\* result[0].duration ? result[0].duration : 0
PhaseDurationAsSummed(sum) == sum
PhaseDurationOf(sum) == IF sum # NullSum /\ sum # 0 THEN sum ELSE 0

\* ---------------------------------------------------------- tasks: jobs
\* the main callback of the tasks action's async.parallel
tasksCallbackNoError(v, error) ==
    [v EXCEPT !.stage = "getPhases", !.getPhases = "pending"]
tasksCallback(v, error) ==
    IF error # NoError
    THEN viewError(v, error)
    ELSE [v EXCEPT !.stage = "getPhases", !.getPhases = "pending"]

\* one job of the tasks action's parallel stage calls back
ViewParallelDone(v, error) ==
    LET fire == EachFire(v.done, Cardinality(JobNames), error # NoError)
        v1 == [v EXCEPT !.done = EachNext(@, error # NoError)]
    IN CASE fire = "err" -> tasksCallback(v1, error)
         [] fire = "ok" -> tasksCallback(v1, NoError)
         [] OTHER -> v1

\* all phases of a project, done or not
ProjectPhases(projectId) ==
    LET s == SortedSeq({p \in DOMAIN phases : phases[p].projectId = projectId})
    IN [i \in 1..Len(s) |-> phases[s[i]]]

\* DataService.getTasks({storyid: storyId}): the attribute is written
\* storyid, which a store that matches column names without regard to case
\* reads as storyId, and which no record has in a store that matches the
\* keys of the records: the tasks of the story, or no task
StoryTasks(storyId) ==
    LET s == SortedSeq({t \in DOMAIN tasks : tasks[t].storyId = storyId})
    IN [i \in 1..Len(s) |-> tasks[s[i]]]

\* what a job of the parallel stage can give
JobResults(j) ==
    CASE j = "story" -> {stories[view.storyId]}
      [] j = "tasks" -> {StoryTasks(view.storyId), <<>>}
      [] j = "role" -> {TRUE}
      [] OTHER -> {<<>>}

\* ---------------------------------------------------------- tasks: actions
\* tasks(request, response): issue the five jobs
Tasks ==
    /\ view.stage = "idle"
    /\ view' = [view EXCEPT !.stage = "parallel",
                            !.storyId = SrcStory,
                            !.job = [j \in JobNames |-> "pending"]]
    /\ UNCHANGED <<stories, tasks, phases, tasks0, ledger, events, split>>

\* the callback of one of the jobs role, story, tasks, users, types
ViewJobDone(j) ==
    /\ view.job[j] = "pending"
    /\ \/ \E result \in JobResults(j) :
             view' = ViewParallelDone([view EXCEPT !.job[j] = "ok",
                                                   !.data[j] = result],
                                      NoError)
       \/ view' = ViewParallelDone([view EXCEPT !.job[j] = "err"], Error(j, 0))
    /\ UNCHANGED <<stories, tasks, phases, tasks0, ledger, events, split>>

\* the callback of DataService.getPhases({projectId: data.story.projectId})
ViewPhasesDone ==
    /\ view.getPhases = "pending"
    /\ \/ view' = fetchPhaseDuration(
                      [view EXCEPT !.getPhases = "ok"],
                      ProjectPhases(view.data.story.projectId))
       \/ view' = viewError([view EXCEPT !.getPhases = "err"],
                            Error("getPhases", 0))
    /\ UNCHANGED <<stories, tasks, phases, tasks0, ledger, events, split>>

\* the callback of the sum query of phase i in the iterator of the map
DurationDone(i) ==
    /\ i \in 1..Len(view.dur)
    /\ view.dur[i] = "pending"
    /\ \/ LET phase == view.phases[i]
              where == [phaseId |-> phase.id, storyId |-> view.data.story.id]
              duration == PhaseDurationOf(SumDuration(where))
          IN view' = ViewMapDone(
                 [view EXCEPT !.dur[i] = "ok",
                              !.phases[i] = [id |-> phase.id,
                                             projectId |-> phase.projectId,
                                             order |-> phase.order,
                                             isDone |-> phase.isDone,
                                             duration |-> duration]],
                 NoError)
       \/ view' = ViewMapDone([view EXCEPT !.dur[i] = "err"],
                              Error("duration", i))
    /\ UNCHANGED <<stories, tasks, phases, tasks0, ledger, events, split>>

ViewNext ==
    \/ Tasks
    \/ \E j \in JobNames : ViewJobDone(j)
    \/ ViewPhasesDone
    \/ \E i \in PhaseIds : DurationDone(i)

\* ------------------------------------------------------------------- init
\* the story of the request, in progress in a sprint, and another story
Stories0 ==
        (SrcStory :> [id |-> SrcStory, projectId |-> DestProject,
                      sprintId |-> SrcSprint, parentId |-> Null,
                      isDone |-> FALSE, timeStart |-> MaxTime, timeEnd |-> Null])
        @@
        (OtherStory :> [id |-> OtherStory, projectId |-> OtherProject,
                        sprintId |-> SrcSprint, parentId |-> Null,
                        isDone |-> FALSE, timeStart |-> MaxTime, timeEnd |-> Null])

InitStories == stories = Stories0

\* the tasks of the story, each in some phase with some start time, and a
\* task of another story
InitTasks(PhaseChoice, TimeChoice) ==
    \E ph \in [TaskIds -> PhaseChoice], ti \in [TaskIds -> TimeChoice] :
        tasks = [t \in AllTaskIds |->
                    IF t = ForeignTask
                    THEN [id |-> t, storyId |-> OtherStory, phaseId |-> 1,
                          timeStart |-> MaxTime, isDone |-> FALSE]
                    ELSE [id |-> t, storyId |-> SrcStory, phaseId |-> ph[t],
                          timeStart |-> ti[t], isDone |-> FALSE]]

\* sets of phases: none, the phase of order 0 only, every other phase, all
PhaseChoices == {{}, {NumPhases}, PhaseIds \ {NumPhases}, PhaseIds}

\* the phases of the project, of which one of these sets is open, and a
\* phase of another project
InitPhases ==
    \E open \in PhaseChoices :
        phases = [p \in AllPhaseIds |->
                    IF p = ForeignPhase
                    THEN [id |-> p, projectId |-> OtherProject, order |-> 0,
                          isDone |-> FALSE]
                    ELSE [id |-> p, projectId |-> DestProject,
                          order |-> PhaseOrder(p), isDone |-> p \notin open]]

\* the rows of the PhaseDuration table: time the story has spent in the
\* phases, a row of no time yet in the last phase, and a row of another story
Durations == 1..MaxDur
LedgerRows ==
    {[phaseId |-> p, storyId |-> SrcStory, duration |-> d] :
        p \in PhaseIds, d \in Durations}
OpenRow == [phaseId |-> NumPhases, storyId |-> SrcStory, duration |-> 0]
ForeignRow == [phaseId |-> 1, storyId |-> OtherStory, duration |-> MaxDur]

InitLedger(Choice) == \E R \in Choice : ledger = R \cup {OpenRow, ForeignRow}

\* one request arrives: a split, or the tasks view
Init ==
    /\ InitStories
    /\ InitPhases
    /\ InitLedger({LedgerRows})
    /\ \/ /\ InitTasks(PhaseIds, Times)
          /\ split = [r \in {1} |-> SplitIdle]
          /\ view = ViewOff
       \/ /\ InitTasks({1}, {Null})
          /\ split = [r \in {1} |-> SplitOff]
          /\ view = ViewIdle
    /\ tasks0 = tasks
    /\ events = <<>>

Next == SplitNext \/ ViewNext

Spec == Init /\ [][Next]_vars

\* ------------------------------------------------------- the tasks view
\* the phases S belong to the project of the story, the others do not
InitPhasesOf(Choice) ==
    \E S \in Choice :
        phases = [p \in AllPhaseIds |->
                    [id |-> p,
                     projectId |-> IF p \in S THEN DestProject ELSE OtherProject,
                     order |-> PhaseOrder(p), isDone |-> FALSE]]

\* the tasks belong to the story or not, and are done or not
InitViewTasks ==
    \E st \in [TaskIds -> {SrcStory, OtherStory}], dn \in [TaskIds -> BOOLEAN] :
        tasks = [t \in AllTaskIds |->
                    IF t = ForeignTask
                    THEN [id |-> t, storyId |-> OtherStory, phaseId |-> 1,
                          timeStart |-> MaxTime, isDone |-> TRUE]
                    ELSE [id |-> t, storyId |-> st[t], phaseId |-> 1,
                          timeStart |-> Null, isDone |-> dn[t]]]

\* a request for the tasks view arrives, over any ledger and any set of
\* phases of the project, or over any set of tasks
InitView ==
    /\ InitStories
    /\ \/ /\ InitPhasesOf(PhaseChoices)
          /\ InitLedger(SUBSET LedgerRows)
          /\ InitTasks({1}, {Null})
       \/ /\ InitPhasesOf({PhaseIds})
          /\ InitLedger({LedgerRows})
          /\ InitViewTasks
    /\ split = [r \in {1} |-> SplitOff]
    /\ view = ViewIdle
    /\ tasks0 = tasks
    /\ events = <<>>

SpecView == InitView /\ [][ViewNext]_vars

\* ------------------------------------------- a split beside another writer
\* another request changes the phase and the start time of a task of the
\* story: the Task table is shared, and nothing locks a task between the
\* getTasks and the getTask of a split
EditTask(t) ==
    /\ \E phaseId \in PhaseIds, timeStart \in Times :
          /\ <<phaseId, timeStart>> # <<tasks[t].phaseId, tasks[t].timeStart>>
          /\ tasks' = [tasks EXCEPT ![t].phaseId = phaseId,
                                    ![t].timeStart = timeStart]
    /\ UNCHANGED <<stories, phases, tasks0, ledger, events, split, view>>

\* a split arrives; every phase of the project is open
InitEdit ==
    /\ InitStories
    /\ InitPhasesOf({PhaseIds})
    /\ InitLedger({LedgerRows})
    /\ InitTasks({1}, {Null})
    /\ split = [r \in {1} |-> SplitIdle]
    /\ view = ViewOff
    /\ tasks0 = tasks
    /\ events = <<>>

NextEdit == SplitNext \/ \E t \in TaskIds : EditTask(t)

SpecEdit == InitEdit /\ [][NextEdit]_vars

\* ------------------------------------------------ two splits of one story
\* the story has one task, started in the first phase
InitOneTask ==
    tasks = [t \in AllTaskIds |->
                [id |-> t,
                 storyId |-> IF t = 1 THEN SrcStory ELSE OtherStory,
                 phaseId |-> 1, timeStart |-> MaxTime, isDone |-> FALSE]]

\* two requests to split the same story arrive; every phase is open
InitTwo ==
    /\ InitStories
    /\ InitPhasesOf({PhaseIds})
    /\ InitLedger({LedgerRows})
    /\ InitOneTask
    /\ split = [r \in {1, 2} |-> SplitIdle]
    /\ view = ViewOff
    /\ tasks0 = tasks
    /\ events = <<>>

SpecTwo == InitTwo /\ [][SplitNext]_vars

\* ------------------------------------------- a split whose calls call back
\* a split arrives; the tasks of the story are in the first or last phase
InitLive ==
    /\ InitStories
    /\ InitPhases
    /\ InitLedger({LedgerRows})
    /\ InitTasks({1, NumPhases}, {Null})
    /\ split = [r \in {1} |-> SplitIdle]
    /\ view = ViewOff
    /\ tasks0 = tasks
    /\ events = <<>>

\* every call of the data service and of the models that the split has
\* issued calls back at some time, with a result or with an error
CallsBack ==
    \A r \in {1} :
        /\ WF_vars(GetStoryDone(r))
        /\ WF_vars(NewStoryDone(r))
        /\ WF_vars(PhasesDone(r))
        /\ WF_vars(GetTasksDone(r))
        /\ \A i \in TaskIds : WF_vars(GetTaskDone(r, i)) /\ WF_vars(SaveDone(r, i))
        /\ WF_vars(UpdateOldDone(r))
        /\ WF_vars(UpdateNewDone(r))

SpecLive == InitLive /\ [][SplitNext]_vars /\ CallsBack

\* ------------------------------------------------------------- properties
Indices(s) == 1..Len(s)

\* the positions of the messages ev about id
EventsOf(ev, id) ==
    {k \in Indices(events) : events[k].ev = ev /\ events[k].id = id}

TaskEvents ==
    {k \in Indices(events) :
        events[k].ev \in {"Task.publishDestroy", "Task.publishCreate"}}

Sent(w) == {k \in Indices(w.responses) : w.responses[k].kind = "send"}
Errors(w) == {k \in Indices(w.responses) : w.responses[k].kind = "error"}

\* the id of the phase of the smallest order among the phases ps
MinOrderPhaseId(ps) ==
    CHOOSE p \in {ps[i].id : i \in Indices(ps)} :
        \A i \in Indices(ps) : phases[p].order <= ps[i].order

\* C1: when the fetch of the open phases returns no phase, no task is
\* fetched, changed or announced; and when every other step succeeds too,
\* the result holds no moved task, a count of 0, and the source story is done.
C1_NoOpenPhases ==
    \A r \in DOMAIN split :
        LET w == split[r] IN
        (w.jobA.phases = "ok" /\ w.resA.phases = <<>>) =>
            /\ w.getTasks = "none"
            /\ w.wf = "none"
            /\ w.mSt = <<>>
            /\ tasks = tasks0
            /\ TaskEvents = {}
            /\ (w.jobA.newStory = "ok" /\ w.jobF.old = "ok" /\ w.jobF.new = "ok") =>
                  /\ Len(w.responses) = 1
                  /\ w.responses[1].kind = "send"
                  /\ w.responses[1].data.tasks = <<>>
                  /\ w.responses[1].data.taskCnt = 0
                  /\ w.responses[1].data.storyOld.isDone
                  /\ stories[w.req.storyId].isDone

C1_Witness ==
    \E r \in DOMAIN split :
        LET w == split[r] IN
        /\ w.jobA.phases = "ok" /\ w.resA.phases = <<>>
        /\ Sent(w) # {}
        /\ \E t \in TaskIds : tasks[t].storyId = w.req.storyId

\* C2: in a split into the backlog, every task whose save succeeded is stored
\* with timeStart null and in the phase of the smallest order among the
\* fetched open phases.
C2_BacklogMove ==
    \A r \in DOMAIN split :
        LET w == split[r] IN
        \A i \in Indices(w.mSt) :
            (w.req.sprintId = Backlog /\ w.mSt[i] = "ok") =>
                LET t == tasks[w.mTasks[i].id] IN
                /\ t.timeStart = Null
                /\ t.phaseId = MinOrderPhaseId(w.resA.phases)
                /\ t.storyId = w.resA.newStory.id

C2_Witness ==
    \E r \in DOMAIN split :
        LET w == split[r] IN
        \E i \in Indices(w.mSt) :
            /\ w.req.sprintId = Backlog /\ w.mSt[i] = "ok"
            /\ tasks0[w.mTasks[i].id].timeStart # Null
            /\ tasks0[w.mTasks[i].id].phaseId # MinOrderPhaseId(w.resA.phases)
            /\ w.resA.phases[1].id # MinOrderPhaseId(w.resA.phases)

\* C3: in a split into a sprint, every task whose save succeeded is stored as
\* it was, but for its storyId, which is the new story's id.
C3_SprintMove ==
    \A r \in DOMAIN split :
        LET w == split[r] IN
        \A i \in Indices(w.mSt) :
            (w.req.sprintId # Backlog /\ w.mSt[i] = "ok") =>
                LET id == w.mTasks[i].id IN
                /\ tasks[id] = [tasks0[id] EXCEPT !.storyId = w.resA.newStory.id]
                /\ tasks[id].storyId # tasks0[id].storyId

C3_Witness ==
    \E r \in DOMAIN split :
        LET w == split[r] IN
        \E i \in Indices(w.mSt) :
            /\ w.req.sprintId # Backlog /\ w.mSt[i] = "ok"
            /\ tasks0[w.mTasks[i].id].timeStart # Null
            /\ tasks0[w.mTasks[i].id].phaseId # w.firstPhase.id

\* C4: when the fetch of the phases fails and the creation of the new story
\* succeeds, the new story is stored and announced, the error is reported, no
\* task is moved and the source story is not finalized.
C4_PhasesFailStoryStays ==
    \A r \in DOMAIN split :
        LET w == split[r] IN
        (w.jobA.phases = "err" /\ w.jobA.newStory = "ok") =>
            LET id == w.resA.newStory.id IN
            /\ id \in DOMAIN stories
            /\ stories[id] = w.resA.newStory
            /\ Cardinality(EventsOf("Story.publishCreate", id)) = 1
            /\ Len(w.responses) = 1
            /\ w.responses[1].kind = "error"
            /\ tasks = tasks0
            /\ TaskEvents = {}
            /\ w.wf = "none"
            /\ w.jobF = [old |-> "none", new |-> "none"]
            /\ stories[w.req.storyId].timeEnd = Null
            /\ ~stories[w.req.storyId].isDone

C4_Witness ==
    \E r \in DOMAIN split :
        LET w == split[r] IN
        /\ w.jobA.phases = "err" /\ w.jobA.newStory = "ok"
        /\ w.responses[1].error = Error("phases", 0)
        /\ events # <<>>

\* C5: every story a split has created has the source story as its parent
\* and the requested sprint as its sprint, also after the finalize update.
C5_NewStoryLinks ==
    \A id \in DOMAIN stories \ {SrcStory, OtherStory} :
        \E r \in DOMAIN split :
            /\ split[r].resA.newStory.id = id
            /\ stories[id].parentId = split[r].req.storyId
            /\ stories[id].sprintId = split[r].req.sprintId

C5_Witness ==
    \E r \in DOMAIN split :
        /\ split[r].jobF.new = "ok"
        /\ split[r].resA.newStory.id \in DOMAIN stories \ {SrcStory, OtherStory}

\* the jobs of the three parallel stages, and whether the main callback of
\* the stage has run: it has answered the request or started the next step
JobsA == {"newStory", "phases"}
JobsF == {"old", "new"}
InvokedA(w) == w.getStory = "ok" /\ (w.responses # <<>> \/ w.stage # "splitStory")
InvokedF(w) == w.stage = "finalize" /\ w.responses # <<>>
InvokedV == view.stage \notin {"off", "idle", "parallel"}

ErrorOfF(j) == Error(IF j = "old" THEN "updateOld" ELSE "updateNew", 0)

C7_Original ==
    \A r \in DOMAIN split :
        LET w == split[r] IN
        /\ (\A j \in JobsA : w.jobA[j] = "err") =>
              w.responses = <<[kind |-> "error", error |-> Error("newStory", 0)]>>
        /\ (\A j \in JobsF : w.jobF[j] = "err") =>
              w.responses = <<[kind |-> "error", error |-> ErrorOfF("old")]>>

\* C7, amended: the error reported is the one of the job that fails first in
\* time: the first failure of a stage is answered with its own error, and a
\* later failure of the stage changes no response.
C7_FirstFailureInTime ==
    [][\A r \in DOMAIN split :
          LET w == split[r]
              w2 == split'[r]
          IN /\ \A j \in JobsA :
                   (w.jobA[j] = "pending" /\ w2.jobA[j] = "err") =>
                       w2.responses =
                           IF \E k \in JobsA : w.jobA[k] = "err"
                           THEN w.responses
                           ELSE <<[kind |-> "error", error |-> Error(j, 0)]>>
             /\ \A j \in JobsF :
                   (w.jobF[j] = "pending" /\ w2.jobF[j] = "err") =>
                       w2.responses =
                           IF \E k \in JobsF : w.jobF[k] = "err"
                           THEN w.responses
                           ELSE <<[kind |-> "error", error |-> ErrorOfF(j)]>>
      ]_vars

C7_Witness ==
    \E r \in DOMAIN split :
        LET w == split[r] IN
        /\ \A j \in JobsA : w.jobA[j] = "err"
        /\ w.responses = <<[kind |-> "error", error |-> Error("phases", 0)]>>

\* C8: when the fetch of the task list fails, the move never starts: no task
\* is fetched again, saved or announced, finalize never runs, and the error
\* is reported.
C8_GetTasksFails ==
    \A r \in DOMAIN split :
        LET w == split[r] IN
        w.getTasks = "err" =>
            /\ w.mSt = <<>>
            /\ w.mTasks = <<>>
            /\ tasks = tasks0
            /\ TaskEvents = {}
            /\ w.jobF = [old |-> "none", new |-> "none"]
            /\ stories[w.req.storyId].timeEnd = Null
            /\ ~stories[w.req.storyId].isDone
            /\ w.responses = <<[kind |-> "error", error |-> Error("getTasks", 0)]>>

C8_Witness ==
    \E r \in DOMAIN split :
        LET w == split[r]
            ps == w.resA.phases
        IN /\ w.getTasks = "err"
           /\ getTasks(w.req.storyId, {ps[i].id : i \in Indices(ps)}) # <<>>

SetMax(S) == IF S = {} THEN Null ELSE CHOOSE x \in S : \A y \in S : x >= y

\* the tasks a split has saved
Moved(w) == {w.mTasks[i].id : i \in {k \in Indices(w.mSt) : w.mSt[k] = "ok"}}

\* C9: after a successful split the new story is not done, has no timeEnd,
\* and starts at the latest timeStart of the moved tasks, or at null when
\* there is none (as in every split into the backlog); the source story is
\* done.
C9_FinalizedStories ==
    \A r \in DOMAIN split :
        LET w == split[r] IN
        Sent(w) # {} =>
            LET new == stories[w.resA.newStory.id] IN
            /\ new.isDone = FALSE
            /\ new.timeEnd = Null
            /\ new.timeStart = SetMax({tasks[t].timeStart : t \in Moved(w)})
            /\ w.req.sprintId = Backlog => new.timeStart = Null
            /\ stories[w.req.storyId].isDone = TRUE
            /\ w.responses[1].data.storyNew = new
            /\ w.responses[1].data.storyOld = stories[w.req.storyId]

C9_Witness ==
    \E r \in DOMAIN split :
        LET w == split[r] IN
        /\ Sent(w) # {}
        /\ Cardinality(Moved(w)) > 1
        /\ stories[w.resA.newStory.id].timeStart # Null

\* C10: a task of the move has one destroy message and one create message,
\* the destroy before the create, when its save has succeeded, and none
\* otherwise; no other task has any.
C10_DestroyThenCreate ==
    /\ \A r \in DOMAIN split :
          LET w == split[r] IN
          \A i \in Indices(w.mSt) :
              LET D == EventsOf("Task.publishDestroy", w.mTasks[i].id)
                  C == EventsOf("Task.publishCreate", w.mTasks[i].id)
              IN IF w.mSt[i] = "ok"
                 THEN /\ Cardinality(D) = 1
                      /\ Cardinality(C) = 1
                      /\ \A d \in D : \A c \in C : d < c
                 ELSE D = {} /\ C = {}
    /\ \A k \in TaskEvents :
          \E r \in DOMAIN split : \E i \in Indices(split[r].mSt) :
              split[r].mTasks[i].id = events[k].id

C10_Witness ==
    \E r \in DOMAIN split :
        LET w == split[r] IN
        \E i, j \in Indices(w.mSt) :
            /\ w.mSt[i] = "ok"
            /\ w.mSt[j] \in {"errGetTask", "errSave"}

\* the error of the iterator of task i, by the state the iterator ended in
IteratorError(st, i) ==
    IF st = "errGetTask" THEN Error("getTask", i) ELSE Error("save", i)

Failed(w) == {i \in Indices(w.mSt) : w.mSt[i] \in {"errGetTask", "errSave"}}

\* C11: when the second fetch or the save of a task fails, the split answers
\* with one error, the error of a failed task (of that task when it is the
\* only one), finalize never runs, nothing is sent, and every task saved
\* stays with the new story.
C11_TaskFailure ==
    \A r \in DOMAIN split :
        LET w == split[r] IN
        Failed(w) # {} =>
            /\ Len(w.responses) = 1
            /\ w.responses[1].kind = "error"
            /\ \E i \in Failed(w) :
                  w.responses[1].error = IteratorError(w.mSt[i], i)
            /\ w.jobF = [old |-> "none", new |-> "none"]
            /\ w.stage = "changeTasks"
            /\ stories[w.req.storyId] = Stories0[w.req.storyId]
            /\ \A i \in Indices(w.mSt) :
                  w.mSt[i] = "ok" =>
                      tasks[w.mTasks[i].id].storyId = w.resA.newStory.id

C11_Witness ==
    \E r \in DOMAIN split :
        LET w == split[r] IN
        \E i, j \in Indices(w.mSt) :
            /\ w.mSt[j] = "errSave"
            /\ w.mSt[i] = "ok"
            /\ w.responses = <<[kind |-> "error", error |-> Error("save", j)]>>
            /\ tasks[w.mTasks[i].id].storyId = w.resA.newStory.id

\* C12: when the fetch of the story fails, the split answers with that
\* error, and no story, task or phase is written and no message published.
C12_GetStoryFails ==
    \A r \in DOMAIN split :
        LET w == split[r] IN
        w.getStory = "err" =>
            /\ w.responses = <<[kind |-> "error", error |-> Error("getStory", 0)]>>
            /\ stories = Stories0
            /\ tasks = tasks0
            /\ events = <<>>
            /\ w.jobA = [newStory |-> "none", phases |-> "none"]
            /\ w.getTasks = "none"
            /\ w.jobF = [old |-> "none", new |-> "none"]

C12_Witness ==
    \E r \in DOMAIN split :
        /\ split[r].getStory = "err"
        /\ split[r].stage = "getStory"
        /\ Errors(split[r]) = {1}

StoryUpdates == {k \in Indices(events) : events[k].ev = "Story.publishUpdate"}

\* C18: the messages of a split are ordered by stage: the message of the
\* creation of the new story comes before every task message, and every task
\* message before both story update messages, which a successful split has;
\* the source story is done only when every task of the move is saved.
C18_EventsByStage ==
    \A r \in DOMAIN split :
        LET w == split[r]
            C == EventsOf("Story.publishCreate", w.resA.newStory.id)
        IN /\ \A k \in TaskEvents : \E c \in C : c < k
           /\ \A k \in TaskEvents : \A u \in StoryUpdates : k < u
           /\ \A c \in C : \A u \in StoryUpdates : c < u
           /\ stories[SrcStory].isDone =>
                 \A i \in Indices(w.mSt) : w.mSt[i] = "ok"
           /\ Sent(w) # {} =>
                 /\ Cardinality(C) = 1
                 /\ EventsOf("Story.publishUpdate", w.req.storyId) # {}
                 /\ EventsOf("Story.publishUpdate", w.resA.newStory.id) # {}
                 /\ Cardinality(StoryUpdates) = 2

C18_Witness ==
    \E r \in DOMAIN split :
        /\ Sent(split[r]) # {}
        /\ Cardinality(TaskEvents) = 2 * NumTasks

\* the reports the tasks view has rendered
Reports ==
    {view.responses[k].data :
        k \in {n \in Indices(view.responses) : view.responses[n].kind = "view"}}

\* the phases of the project of the story, and the rows of the ledger about
\* the story in the phases P
ProjectPhaseIds ==
    {p \in DOMAIN phases : phases[p].projectId = stories[SrcStory].projectId}
RowsOf(P) == {x \in ledger : x.storyId = SrcStory /\ x.phaseId \in P}

\* C13: the report covers every phase of the project, the duration of a
\* phase is the sum of its rows of the ledger about the story, 0 when it has
\* none, and totalTime is the sum of the durations of all the phases, 0 when
\* the project has no phase.
C13_TotalTime ==
    \A d \in Reports :
        /\ {d.phases[i].id : i \in Indices(d.phases)} = ProjectPhaseIds
        /\ Len(d.phases) = Cardinality(ProjectPhaseIds)
        /\ \A i \in Indices(d.phases) :
              /\ d.phases[i].duration = SumOf(RowsOf({d.phases[i].id}))
              /\ RowsOf({d.phases[i].id}) = {} => d.phases[i].duration = 0
        /\ d.phaseDuration.totalTime = SumOf(RowsOf(ProjectPhaseIds))
        /\ ProjectPhaseIds = {} => d.phaseDuration.totalTime = 0

C13_Witness ==
    \E d \in Reports :
        /\ d.phaseDuration.totalTime > MaxDur
        /\ \E i \in Indices(d.phases) : RowsOf({d.phases[i].id}) = {}

\* C14: totalTimeNoFirst is the sum of the durations of the phases whose
\* order is not 0: 0 when there is no such phase or when all their durations
\* are 0.
C14_TotalTimeNoFirst ==
    \A d \in Reports :
        LET P == {p \in ProjectPhaseIds : phases[p].order # 0} IN
        /\ d.phaseDuration.totalTimeNoFirst = SumOf(RowsOf(P))
        /\ P = {} => d.phaseDuration.totalTimeNoFirst = 0
        /\ (\A i \in Indices(d.phases) :
               d.phases[i].order # 0 => d.phases[i].duration = 0)
              => d.phaseDuration.totalTimeNoFirst = 0

C14_Witness ==
    \E d \in Reports :
        /\ d.phaseDuration.totalTimeNoFirst > 0
        /\ d.phaseDuration.totalTimeNoFirst < d.phaseDuration.totalTime

C14_WitnessEmpty ==
    \E d \in Reports :
        /\ d.phases # <<>>
        /\ \A i \in Indices(d.phases) : d.phases[i].order = 0
        /\ d.phaseDuration.totalTime > 0

\* a fraction that is a number, and one between 0 and 100
Defined(x) == x.den # 0
InPercent(x) == x.den > 0 /\ 0 <= x.num /\ x.num <= 100 * x.den

C15_WitnessNoFirst ==
    \E d \in Reports :
        /\ d.phaseDuration.totalTimeNoFirst = 0
        /\ d.phaseDuration.totalTime > 0

\* C16: cntTaskTotal is the number of the tasks of the report, cntTaskDone
\* the number of those that are done, and progressTask is the integer
\* nearest to 100 * cntTaskDone / cntTaskTotal, the upper one of two, when a
\* task is done, and 0 when none is; it lies between 0 and 100.
C16_Progress ==
    \A d \in Reports :
        LET total == Len(d.tasks)
            done == Cardinality({i \in Indices(d.tasks) : d.tasks[i].isDone})
            p == d.progressTask
        IN /\ d.cntTaskTotal = total
           /\ d.cntTaskDone = done
           /\ done = 0 => p = 0
           /\ done > 0 => /\ 2 * p * total <= 200 * done + total
                          /\ 2 * p * total > 200 * done - total
           /\ p \in 0..100

C16_Witness ==
    \E d \in Reports :
        /\ d.cntTaskDone > 0
        /\ d.cntTaskDone < d.cntTaskTotal
        /\ d.progressTask \in 1..99

FailedJobs == {j \in JobNames : view.job[j] = "err"}
FailedDur == {i \in Indices(view.dur) : view.dur[i] = "err"}

\* C17: when a fetch of the tasks view fails (a job of the first stage, the
\* fetch of the phases, or a sum of durations), the view answers with one
\* error, the error of a failed fetch, and renders no report; after a
\* failure in the first stage the phases are not fetched and no sum is
\* asked for, and after a failed fetch of the phases no sum is asked for.
C17_ReadFailure ==
    /\ (FailedJobs # {} \/ view.getPhases = "err" \/ FailedDur # {}) =>
          /\ Len(view.responses) = 1
          /\ view.responses[1].kind = "error"
          /\ view.responses[1].error \in
                {Error(j, 0) : j \in FailedJobs}
                \cup {Error("duration", i) : i \in FailedDur}
                \cup (IF view.getPhases = "err"
                      THEN {Error("getPhases", 0)} ELSE {})
          /\ view.stage = "error"
          /\ Reports = {}
    /\ FailedJobs # {} => view.getPhases = "none" /\ view.dur = <<>>
    /\ view.getPhases = "err" => view.dur = <<>>

C17_Witness ==
    /\ FailedDur # {}
    /\ \E i \in Indices(view.dur) : view.dur[i] = "ok"
    /\ view.responses # <<>>

C17_WitnessFirstStage ==
    /\ FailedJobs # {}
    /\ \E j \in JobNames : view.job[j] = "ok"
    /\ view.responses # <<>>

\* C19: in a split into a sprint, the task object that the iterator saves
\* carries the phase and the start time the task has in the store when it is
\* fetched again, so that a change made by another request since the fetch
\* of the task list is not overwritten by the earlier values.
C19_KeepsCurrentPhase ==
    [][\A r \in DOMAIN split :
          LET w == split[r]
              w2 == split'[r]
          IN \A i \in Indices(w.mSt) :
                (/\ w.req.sprintId # Backlog
                 /\ w.mSt[i] = "getTask"
                 /\ w2.mSt[i] = "save") =>
                    LET task == tasks[w.mTasks[i].id] IN
                    /\ w2.mObj[i].phaseId = task.phaseId
                    /\ w2.mObj[i].timeStart = task.timeStart
      ]_vars

\* the tasks a split reports as moved
Reported(w) ==
    UNION {{w.responses[k].data.tasks[i].id :
                i \in 1..w.responses[k].data.taskCnt} : k \in Sent(w)}

\* C20: when two splits of the same story both succeed, each has created a
\* story of its own, a child of the source story, and a task that both
\* report as moved belongs to one of the two new stories in the store, the
\* one of the split that saved it last.
C20_OneOwner ==
    \A r1, r2 \in DOMAIN split :
        (r1 # r2 /\ Sent(split[r1]) # {} /\ Sent(split[r2]) # {}) =>
            LET new1 == split[r1].resA.newStory.id
                new2 == split[r2].resA.newStory.id
            IN /\ new1 # new2
               /\ {new1, new2} \subseteq DOMAIN stories \ {SrcStory, OtherStory}
               /\ stories[new1].parentId = SrcStory
               /\ stories[new2].parentId = SrcStory
               /\ \A t \in Reported(split[r1]) \cap Reported(split[r2]) :
                     /\ tasks[t].storyId \in {new1, new2}
                     /\ Cardinality({s \in DOMAIN stories :
                                        tasks[t].storyId = s}) = 1

\* both splits have succeeded and report the same task
C20_Witness ==
    \E r1, r2 \in DOMAIN split :
        /\ r1 # r2
        /\ Sent(split[r1]) # {}
        /\ Sent(split[r2]) # {}
        /\ split[r1].resA.newStory.id # split[r2].resA.newStory.id
        /\ \E t \in Reported(split[r1]) \cap Reported(split[r2]) :
              tasks[t].storyId = split[r2].resA.newStory.id

\* the tasks that are not as they were when the request arrived, or that a
\* message is about
Touched ==
    {t \in DOMAIN tasks : tasks[t] # tasks0[t]}
    \cup {events[k].id : k \in TaskEvents}

\* C21: a split changes, and publishes messages about, only tasks that
\* belonged to the source story and were in one of the fetched open phases
\* of the project; every other task of the story and every task of another
\* story is as it was and has no message.
C21_Frame ==
    \A r \in DOMAIN split :
        LET w == split[r]
            open == {w.resA.phases[i].id : i \in Indices(w.resA.phases)}
        IN \A t \in Touched :
              /\ w.jobA.phases = "ok"
              /\ tasks0[t].storyId = w.req.storyId
              /\ tasks0[t].phaseId \in open
              /\ ~phases[tasks0[t].phaseId].isDone
              /\ phases[tasks0[t].phaseId].projectId = w.req.projectId

C21_Witness ==
    \E r \in DOMAIN split :
        /\ Sent(split[r]) # {}
        /\ \E t \in TaskIds : t \in Touched
        /\ \E t \in TaskIds : t \notin Touched /\ tasks[t].storyId = SrcStory

\* C22: a split has at most one response, whatever jobs and tasks fail and
\* in whatever order: never an error and a result, never two errors.
C22_AtMostOneResponse ==
    \A r \in DOMAIN split :
        /\ Len(split[r].responses) <= 1
        /\ Sent(split[r]) = {} \/ Errors(split[r]) = {}

C22_Witness ==
    \E r \in DOMAIN split :
        LET w == split[r] IN
        /\ Cardinality(Failed(w)) > 1
        /\ Len(w.responses) = 1

Started(w) == w.stage \notin {"off", "idle"}
IteratorRuns(w, i) == i \in Indices(w.mSt) /\ w.mSt[i] \in {"getTask", "save"}
IteratorEnded(w, i) ==
    i \in Indices(w.mSt) /\ w.mSt[i] \in {"ok", "errGetTask", "errSave"}

\* C23: when every issued call calls back, a split that has started comes
\* to send a response, and every call that has been issued comes to its
\* callback, also after another job of its stage or another task of the map
\* has failed: nothing is cancelled.
C23_Terminates ==
    \A r \in {1} :
        /\ Started(split[r]) ~> (split[r].responses # <<>>)
        /\ (split[r].getStory = "pending") ~> (split[r].getStory # "pending")
        /\ \A j \in JobsA :
              (split[r].jobA[j] = "pending") ~> (split[r].jobA[j] \in {"ok", "err"})
        /\ (split[r].getTasks = "pending") ~> (split[r].getTasks \in {"ok", "err"})
        /\ \A i \in TaskIds :
              IteratorRuns(split[r], i) ~> IteratorEnded(split[r], i)
        /\ \A j \in JobsF :
              (split[r].jobF[j] = "pending") ~> (split[r].jobF[j] \in {"ok", "err"})

\* a task of the map has failed, the error is answered, and every other
\* iterator of the map has run to its end, one of them to a saved task
C23_Witness ==
    \E r \in DOMAIN split :
        LET w == split[r] IN
        /\ Errors(w) # {}
        /\ \E i \in Indices(w.mSt) : w.mSt[i] = "errGetTask"
        /\ \E i \in Indices(w.mSt) :
              w.mSt[i] = "ok" /\ tasks[w.mTasks[i].id].storyId # SrcStory
        /\ \A i \in Indices(w.mSt) : IteratorEnded(w, i)

====
